---- MODULE Spec2Model ----
(***************************************************************************)
(* A model of haproxy-api-rs: the typed accessors over HAProxy's Lua       *)
(* handles (Headers, Proxy) and the prometheus example module built on    *)
(* them (rust_req / rust_resp hooks and the serve_metrics service).       *)
(*                                                                         *)
(* Text is modelled as a sequence of one-character strings, so that        *)
(* lower-casing, prefix stripping and query parsing are computed and not   *)
(* assumed.  Enum tags are TLA+ strings: the code compares them exactly.   *)
(***************************************************************************)
EXTENDS Integers, Sequences, FiniteSets, TLC

VARIABLES
    \* ---- the prometheus example module ----
    clock,      \* the wall clock (SystemTime::now), in ticks since UNIX_EPOCH
    phase,      \* per transaction: which hooks the host has run
    txnVars,    \* per transaction: HAProxy's txn-scope variables, freed with the transaction
    procVars,   \* HAProxy's proc-scope variables, shared by all transactions
    reqResult,  \* per transaction: what rust_req returned
    respResult, \* per transaction: what rust_resp returned
    registry,   \* the prometheus Registry created by the module
    applet,     \* the host calls of the serve_metrics run being answered, in order
    \* ---- the typed accessors ----
    headers,    \* the Lua table behind a Headers handle
    innerOrder, \* per header name: the order the host enumerates its value table in
    outerOrder, \* the order the host enumerates the header names in
    apiCall     \* the last accessor call and what it returned

vars == <<clock, phase, txnVars, procVars, reqResult, respResult, registry, applet,
          headers, innerOrder, outerOrder, apiCall>>

metricVars == <<clock, phase, txnVars, procVars, reqResult, respResult, registry, applet>>
apiVars == <<headers, innerOrder, outerOrder, apiCall>>

(***************************************************************************)
(* Bounds                                                                  *)
(***************************************************************************)
NumTxns == 2        \* concurrent transactions
MaxClock == 2       \* the largest clock reading, in ticks
MaxPos == 1         \* the largest position key of a header value table

(***************************************************************************)
(* Text                                                                    *)
(***************************************************************************)
Upper == <<"A","B","C","D","E","F","G","H","I","J","K","L","M",
           "N","O","P","Q","R","S","T","U","V","W","X","Y","Z">>
Lower == <<"a","b","c","d","e","f","g","h","i","j","k","l","m",
           "n","o","p","q","r","s","t","u","v","w","x","y","z">>

\* u8::to_ascii_lowercase: only 'A'..'Z' change
LowerChar(c) ==
    IF \E i \in 1..Len(Upper) : Upper[i] = c
    THEN Lower[CHOOSE i \in 1..Len(Upper) : Upper[i] = c]
    ELSE c

KeepCase(s) == s

\* str::to_ascii_lowercase (http.rs: let name = name.to_ascii_lowercase())
ToAsciiLowercase(s) == [i \in 1..Len(s) |-> LowerChar(s[i])]

\* position of the first c in s, 0 when there is none
IndexOf(s, c) ==
    IF \E i \in 1..Len(s) : s[i] = c
    THEN CHOOSE i \in 1..Len(s) : s[i] = c /\ \A j \in 1..(i - 1) : s[j] # c
    ELSE 0

RECURSIVE Split(_, _)
Split(s, c) ==
    LET i == IndexOf(s, c)
    IN  IF i = 0 THEN <<s>>
        ELSE <<SubSeq(s, 1, i - 1)>> \o Split(SubSeq(s, i + 1, Len(s)), c)

\* str::strip_prefix: Some(rest) when s starts with p, None otherwise
None == [some |-> FALSE, val |-> << >>]
Some(v) == [some |-> TRUE, val |-> v]
UnwrapOr(o, d) == IF o.some THEN o.val ELSE d

StripFirstChars(s, p) ==
    IF Len(s) >= Len(p) THEN Some(SubSeq(s, Len(p) + 1, Len(s))) ELSE None

StripPrefix(s, p) ==
    IF Len(s) >= Len(p) /\ SubSeq(s, 1, Len(p)) = p
    THEN Some(SubSeq(s, Len(p) + 1, Len(s)))
    ELSE None

(***************************************************************************)
(* Lua values crossing the host boundary                                   *)
(***************************************************************************)
Nil == [type |-> "nil", s |-> << >>, n |-> 0]
LuaStr(s) == [type |-> "string", s |-> s, n |-> 0]
LuaInt(n) == [type |-> "integer", s |-> << >>, n |-> n]

Ok(v) == [ok |-> TRUE, val |-> v]
Err == [ok |-> FALSE, val |-> << >>]

(***************************************************************************)
(* Headers (src/src/http.rs)                                               *)
(*                                                                         *)
(* A header table maps a stored name to a value table, and a value table   *)
(* maps integer position keys to values.  The host decides the order in    *)
(* which a Lua table is enumerated; it is an input (innerOrder,            *)
(* outerOrder), a permutation of the table's keys.                         *)
(***************************************************************************)
PosKeys == (0 - 1)..MaxPos

NameA == <<"x", "-", "a">>
NameB == <<"b">>
HdrVals == {<<"u">>, <<"v">>}

InnerTables == UNION {[S -> HdrVals] : S \in SUBSET PosKeys}
InnerTablesB == {(0 :> <<"u">>), (0 :> <<"v">>) @@ (1 :> <<"u">>)}

HeaderTables ==
    UNION {
        {t \in [D -> InnerTables \cup InnerTablesB] :
            /\ (NameA \in D => t[NameA] \in InnerTables)
            /\ (NameB \in D => t[NameB] \in InnerTablesB)}
        : D \in SUBSET {NameA, NameB}}

\* every order a set of keys can be enumerated in
Perms(S) ==
    {f \in [1..Cardinality(S) -> S] : \A i, j \in 1..Cardinality(S) : i # j => f[i] # f[j]}

LookupNames == {NameA, <<"X", "-", "A">>, <<"X", "-", "a">>, NameB, <<"B">>, <<"c">>}

\* Vec::sort_by_key(|x| x.0): a stable sort of (key, value) pairs by key
InsertByKey(sorted, p) ==
    LET n == Cardinality({i \in 1..Len(sorted) : sorted[i][1] <= p[1]})
    IN  SubSeq(sorted, 1, n) \o <<p>> \o SubSeq(sorted, n + 1, Len(sorted))

Unsorted(ps) == ps

RECURSIVE SortByKey(_)
SortByKey(ps) ==
    IF ps = << >> THEN << >>
    ELSE InsertByKey(SortByKey(SubSeq(ps, 1, Len(ps) - 1)), ps[Len(ps)])

\* Table::pairs::<i32, V>().collect(): the (key, value) pairs in the host's order
TablePairs(values, order) == [i \in 1..Len(order) |-> <<order[i], values[order[i]]>>]

\* pairs.sort_by_key(..); pairs.into_iter().map(|(_, v)| v).collect()
SortedValues(values, order) ==
    LET sorted == SortByKey(TablePairs(values, order))
    IN  [i \in 1..Len(sorted) |-> sorted[i][2]]

\* Headers::get
HeadersGet(tbl, order, name) ==
    LET lname == ToAsciiLowercase(name)
    IN  IF lname \in DOMAIN tbl THEN SortedValues(tbl[lname], order[lname]) ELSE << >>

HeadersGetFirstOneBased(tbl, name) ==
    LET lname == ToAsciiLowercase(name)
    IN  IF lname \in DOMAIN tbl /\ 1 \in DOMAIN tbl[lname]
        THEN Some(tbl[lname][1])
        ELSE None

\* Headers::get_first: values.get(0), "Indexes starts from 0"
HeadersGetFirst(tbl, name) ==
    LET lname == ToAsciiLowercase(name)
    IN  IF lname \in DOMAIN tbl /\ 0 \in DOMAIN tbl[lname]
        THEN Some(tbl[lname][0])
        ELSE None

\* HeaderPairs::next, for the i-th entry the host enumerates
HeaderPairsNext(tbl, order, outer, i) ==
    [name |-> outer[i], values |-> SortedValues(tbl[outer[i]], order[outer[i]])]

\* Headers::pairs, iterated to its end
HeadersPairs(tbl, order, outer) ==
    [i \in 1..Len(outer) |-> HeaderPairsNext(tbl, order, outer, i)]

(***************************************************************************)
(* Proxy (src/src/proxy.rs)                                                *)
(***************************************************************************)
Tags == {"frontend", "backend", "proxy", "ruleset", "Frontend", "BACKEND", "",
         "tcp", "http", "health", "HTTP", "Tcp", "unknown"}

\* what the host's get_cap / get_mode member can hand back
HostReturns ==
    {[kind |-> "text", s |-> t] : t \in Tags}
        \cup {[kind |-> "bytes", s |-> ""], [kind |-> "nil", s |-> ""]}

EnumErr == [ok |-> FALSE, variant |-> ""]
EnumOk(v) == [ok |-> TRUE, variant |-> v]

GetCapStrict(hv) ==
    IF hv.kind # "text" THEN EnumErr
    ELSE CASE hv.s = "frontend" -> EnumOk("Frontend")
           [] hv.s = "backend" -> EnumOk("Backend")
           [] hv.s = "proxy" -> EnumOk("Proxy")
           [] hv.s = "ruleset" -> EnumOk("Ruleset")
           [] OTHER -> EnumErr

\* Proxy::get_cap: the call decodes a LuaString, to_str() wants UTF-8, then the match
GetCap(hv) ==
    IF hv.kind # "text" THEN EnumErr
    ELSE CASE hv.s = "frontend" -> EnumOk("Frontend")
           [] hv.s = "backend" -> EnumOk("Backend")
           [] hv.s = "proxy" -> EnumOk("Proxy")
           [] OTHER -> EnumOk("Ruleset")

\* Proxy::get_mode
GetMode(hv) ==
    IF hv.kind # "text" THEN EnumErr
    ELSE CASE hv.s = "tcp" -> EnumOk("Tcp")
           [] hv.s = "http" -> EnumOk("Http")
           [] hv.s = "health" -> EnumOk("Health")
           [] OTHER -> EnumOk("Unknown")


(***************************************************************************)
(* Server (src/src/server.rs)                                              *)
(***************************************************************************)
\* members of the host's Server class the accessor's methods name
ServerMembers == {"get_name", "get_puid", "is_draining", "tracking", "get_trackers"}

\* what the host's tracking member hands back: the tracked server, or nil
TrackingReturns == {[kind |-> "server", s |-> "srv2"], [kind |-> "nil", s |-> ""]}

\* the member name Server::tracking passes to call_method
TrackingMember == "tracking("

TrackErr == [ok |-> FALSE, some |-> FALSE, server |-> ""]
TrackOk(hv) == [ok |-> TRUE, some |-> hv.kind = "server", server |-> hv.s]

\* ObjectLike::call_method: looks the member up on the handle and calls it; a handle
\* without that member gives nil, and calling nil is an error
CallMethod(members, member, hv) == IF member \in members THEN TrackOk(hv) ELSE TrackErr

\* Server::tracking
ServerTracking(hv) == CallMethod(ServerMembers, TrackingMember, hv)

(***************************************************************************)
(* The prometheus example (src/examples/prometheus/src/lib.rs)             *)
(***************************************************************************)
Txns == 1..NumTxns
\* the clock readings, from UNIX_EPOCH on
ClockValues == 0..MaxClock

XRequestUri == <<"x", "-", "r", "e", "q", "u", "e", "s", "t", "-", "u", "r", "i">>
Foo == <<"f", "o", "o">>
Bar == <<"b", "a", "r">>
AppLabel == <<"h", "a", "p", "r", "o", "x", "y", "_", "p", "r", "o", "m", "e", "t", "h", "e",
              "u", "s", "_", "m", "o", "d", "u", "l", "e">>

\* values the upstream set-header directive can have captured into x-request-uri
UriHeaderValues ==
    { <<"/", "?", "f", "o", "o", "=", "1", "&", "b", "a", "r", "=", "2">>,
      <<"f", "o", "o", "=", "1", "&", "f", "o", "o", "=", "2">> }

\* the request header tables the host hands to rust_req
ReqHeaderTables ==
    {<< >>} \cup {(XRequestUri :> (0 :> v)) : v \in UriHeaderValues}
            \cup {(XRequestUri :> ((0 :> <<"/", "?">>) @@ (1 :> <<"b", "a", "r", "=", "1">>)))}

\* which host call of a hook fails (a HostCallError or DecodeError), if any
ReqFaults == {"none", "headers", "set_time"}
RespFaults == {"none", "headers", "method", "status"}

\* form_urlencoded::parse: split on '&', skip empty pieces, split each at its first '=',
\* '+' decodes to a space (no '%' occurs in the modelled inputs)
PlusToSpace(s) == [i \in 1..Len(s) |-> IF s[i] = "+" THEN " " ELSE s[i]]

ParsePair(piece) ==
    LET i == IndexOf(piece, "=")
    IN  IF i = 0 THEN [name |-> PlusToSpace(piece), value |-> << >>]
        ELSE [name |-> PlusToSpace(SubSeq(piece, 1, i - 1)),
              value |-> PlusToSpace(SubSeq(piece, i + 1, Len(piece)))]

FormUrlencodedParse(s) ==
    LET pieces == SelectSeq(Split(s, "&"), LAMBDA p : p # << >>)
    IN  [i \in 1..Len(pieces) |-> ParsePair(pieces[i])]

QueryParamsFirst(s) ==
    LET pairs == FormUrlencodedParse(s)
        names == {pairs[i].name : i \in 1..Len(pairs)}
        first(n) == CHOOSE i \in 1..Len(pairs) :
                       pairs[i].name = n /\ \A j \in 1..(i - 1) : pairs[j].name # n
    IN  [n \in names |-> pairs[first(n)].value]

\* .collect::<HashMap<_, _>>(): a later pair replaces an earlier one of the same name
QueryParams(s) ==
    LET pairs == FormUrlencodedParse(s)
        names == {pairs[i].name : i \in 1..Len(pairs)}
        last(n) == CHOOSE i \in 1..Len(pairs) :
                      pairs[i].name = n /\ \A j \in (i + 1)..Len(pairs) : pairs[j].name # n
    IN  [n \in names |-> pairs[last(n)].value]

MapGetOrEmpty(m, k) == IF k \in DOMAIN m THEN Some(m[k]) ELSE Some(<< >>)

\* HashMap::get
MapGet(m, k) == IF k \in DOMAIN m THEN Some(m[k]) ELSE None

ReqUriVarProc == [scope |-> "proc", name |-> "req_uri"]

\* the variable names the two hooks share; HAProxy takes the scope from the prefix
ReqUriVar == [scope |-> "txn", name |-> "req_uri"]

StartTimeVar == [scope |-> "txn", name |-> "start_time"]

EmptyStore == [req_uri |-> Nil, start_time |-> Nil]

\* Txn::set_var / Txn::get_var on the transaction's handle: stores.txn is the store of the
\* transaction the hook runs for, stores.proc the process-wide one
TxnSetVar(stores, var, val) == [stores EXCEPT ![var.scope][var.name] = val]
TxnGetVarOrDefault(stores, var) ==
    LET v == stores[var.scope][var.name]
    IN  IF v.type # "nil" THEN v
        ELSE IF var.name = "req_uri" THEN LuaStr(<< >>) ELSE LuaInt(0)

TxnGetVar(stores, var) == stores[var.scope][var.name]

\* FromLua for String: a nil (unset variable) does not decode
DecodeString(v) == IF v.type = "string" THEN Ok(v.s) ELSE Err

\* FromLua for u128: a nil (unset variable) does not decode
DecodeU128(v) ==
    IF v.type = "integer" /\ v.n >= 0 THEN [ok |-> TRUE, val |-> v.n]
    ELSE [ok |-> FALSE, val |-> 0]

\* Duration::as_millis / Duration::from_millis, the clock being in ticks of half a
\* millisecond (the program's Duration counts nanoseconds)
TicksPerMs == 2
AsMillis(ticks) == ticks \div TicksPerMs
FromMillisUnscaled(ms) == ms
FromMillis(ms) == ms * TicksPerMs

\* CounterVec::with_label_values(&[label]).inc()
CounterInc(c, label) ==
    IF label \in DOMAIN c THEN [c EXCEPT ![label] = @ + 1] ELSE c @@ (label :> 1)

\* HistogramVec::with_label_values(&[foo, bar]).observe(v)
HistObserve(h, labels, v) ==
    IF labels \in DOMAIN h
    THEN [h EXCEPT ![labels] = [count |-> @.count + 1, sum |-> @.sum + v]]
    ELSE h @@ (labels :> [count |-> 1, sum |-> v])

InitRegistryUnset ==
    [app_name |-> << >>, foo_call_total |-> << >>, bar_call_total |-> << >>,
     response_time |-> << >>]

\* init_registry, then the three register_*_vec_with_registry! of the module
InitRegistry ==
    [app_name |-> (AppLabel :> 1),
     foo_call_total |-> << >>,
     bar_call_total |-> << >>,
     response_time |-> << >>]

\* the body of the rust_req action: the variable stores it leaves and what it returns
ReqRun(stores, hdrs, now, fault) ==
    IF fault = "headers" THEN [result |-> "err", stores |-> stores]
    ELSE
    LET got == UnwrapOr(HeadersGetFirst(hdrs, XRequestUri), << >>)
        req_uri == UnwrapOr(StripPrefix(got, <<"/", "?">>), got)
        stored == TxnSetVar(stores, ReqUriVar, LuaStr(req_uri))
    IN  IF now < 0 \/ fault = "set_time" THEN [result |-> "err", stores |-> stored]
        ELSE [result |-> "ok",
              stores |-> TxnSetVar(stored, StartTimeVar, LuaInt(AsMillis(now)))]

\* the body of the rust_resp action: the registry it leaves and what it returns
RespRun(stores, now, fault, reg) ==
    IF fault = "headers" THEN [result |-> "err", registry |-> reg]
    ELSE
    LET req_uri == DecodeString(TxnGetVar(stores, ReqUriVar))
    IN  IF ~req_uri.ok THEN [result |-> "err", registry |-> reg]
        ELSE
        LET query_params == QueryParams(req_uri.val)
            foo_param == MapGet(query_params, Foo)
            bar_param == MapGet(query_params, Bar)
            reg1 == IF foo_param.some
                    THEN [reg EXCEPT !.foo_call_total = CounterInc(@, foo_param.val)]
                    ELSE reg
            reg2 == IF bar_param.some
                    THEN [reg1 EXCEPT !.bar_call_total = CounterInc(@, bar_param.val)]
                    ELSE reg1
            start_time == DecodeU128(TxnGetVar(stores, StartTimeVar))
        IN  IF fault \in {"method", "status"} \/ ~start_time.ok \/ now < 0
            THEN [result |-> "err", registry |-> reg2]
            ELSE IF now < FromMillis(start_time.val)
            THEN [result |-> "panic", registry |-> reg2]
            ELSE [result |-> "ok",
                  registry |-> [reg2 EXCEPT !.response_time =
                                   HistObserve(@, <<UnwrapOr(foo_param, << >>),
                                                    UnwrapOr(bar_param, << >>)>>,
                                               now - FromMillis(start_time.val))]]

\* Registry::gather + TextEncoder::encode_utf8, one entry per sample line: families in name
\* order, a family without series left out; the order of the series inside a family is the
\* encoder's (some fixed order), and histogram buckets are not modelled
RECURSIVE SetToSeq(_)
SetToSeq(S) ==
    IF S = {} THEN << >>
    ELSE LET x == CHOOSE x \in S : TRUE IN <<x>> \o SetToSeq(S \ {x})

SeriesOf(f) == SetToSeq(DOMAIN f)

CounterLines(name, f) ==
    LET series == SeriesOf(f)
    IN  [i \in 1..Len(series) |->
            [name |-> name, labels |-> <<series[i]>>, value |-> f[series[i]]]]

HistogramLines(name, f) ==
    LET series == SeriesOf(f)
    IN  [i \in 1..(2 * Len(series)) |->
            LET labels == series[(i + 1) \div 2]
            IN  IF i % 2 = 1
                THEN [name |-> name \o "_count", labels |-> labels, value |-> f[labels].count]
                ELSE [name |-> name \o "_sum", labels |-> labels, value |-> f[labels].sum]]

\* render_metrics
RenderMetrics(reg) ==
    CounterLines("app_name", reg.app_name)
        \o CounterLines("bar_http_requests_total", reg.bar_call_total)
        \o CounterLines("foo_http_requests_total", reg.foo_call_total)
        \o HistogramLines("total_response_time_seconds", reg.response_time)

\* Lua's string.len, in the unit the text is modelled in
StringLen(text) == Len(text)

AppletCall(call, name, num, text, body) ==
    [call |-> call, name |-> name, num |-> num, text |-> text, body |-> body]

ServeMetricsCallsLate(reg) ==
    LET response == RenderMetrics(reg)
    IN  << AppletCall("set_status", "", 200, "", << >>),
           AppletCall("start_response", "", 0, "", << >>),
           AppletCall("add_header", "content-length", StringLen(response), "", << >>),
           AppletCall("add_header", "content-type", 0, "application/octet-stream", << >>),
           AppletCall("send", "", 0, "", response) >>

\* the Lua chunk registered as the serve_metrics service
ServeMetricsCalls(reg) ==
    LET response == RenderMetrics(reg)
    IN  << AppletCall("set_status", "", 200, "", << >>),
           AppletCall("add_header", "content-length", StringLen(response), "", << >>),
           AppletCall("add_header", "content-type", 0, "application/octet-stream", << >>),
           AppletCall("start_response", "", 0, "", << >>),
           AppletCall("send", "", 0, "", response) >>

(***************************************************************************)
(* The hooks as the host runs them.  HAProxy runs the Lua of one state     *)
(* under one lock, so a hook runs to its end before another starts.        *)
(***************************************************************************)
MetricsInit ==
    /\ clock = 0
    /\ phase = [t \in Txns |-> "new"]
    /\ txnVars = [t \in Txns |-> EmptyStore]
    /\ procVars = EmptyStore
    /\ reqResult = [t \in Txns |-> "none"]
    /\ respResult = [t \in Txns |-> "none"]
    /\ registry = InitRegistry
    /\ applet = << >>

\* the http-request action "rust_req" of transaction t
RustReq(t) ==
    /\ phase[t] = "new"
    /\ \E hdrs \in ReqHeaderTables, fault \in ReqFaults :
          LET out == ReqRun([txn |-> txnVars[t], proc |-> procVars], hdrs, clock, fault)
          IN  /\ txnVars' = [txnVars EXCEPT ![t] = out.stores.txn]
              /\ procVars' = out.stores.proc
              /\ reqResult' = [reqResult EXCEPT ![t] = out.result]
    /\ phase' = [phase EXCEPT ![t] = "req_done"]
    /\ applet' = << >>
    /\ UNCHANGED <<clock, respResult, registry>>

\* the http-after-response action "rust_resp" of transaction t.  The host runs it after the
\* request action of t, or without one when it answered before the http-request rules; the
\* transaction ends with it and the host frees its txn-scope variables
RustResp(t) ==
    /\ phase[t] \in {"new", "req_done"}
    /\ \E fault \in RespFaults :
          LET out == RespRun([txn |-> txnVars[t], proc |-> procVars], clock, fault, registry)
          IN  /\ registry' = out.registry
              /\ respResult' = [respResult EXCEPT ![t] = out.result]
    /\ phase' = [phase EXCEPT ![t] = "resp_done"]
    /\ txnVars' = [txnVars EXCEPT ![t] = EmptyStore]
    /\ applet' = << >>
    /\ UNCHANGED <<clock, procVars, reqResult>>

\* a pull of the serve_metrics service
ServeMetrics ==
    /\ applet' = ServeMetricsCalls(registry)
    /\ UNCHANGED <<clock, phase, txnVars, procVars, reqResult, respResult, registry>>

\* the wall clock moves on
ClockForward ==
    /\ clock < MaxClock
    /\ clock' = clock + 1
    /\ applet' = << >>
    /\ UNCHANGED <<phase, txnVars, procVars, reqResult, respResult, registry>>

\* the wall clock is set back (SystemTime is not monotonic)
ClockBackward ==
    /\ \E c \in ClockValues : c < clock /\ clock' = c
    /\ applet' = << >>
    /\ UNCHANGED <<phase, txnVars, procVars, reqResult, respResult, registry>>

(***************************************************************************)
(* The accessors, called on a handle the host has handed out               *)
(***************************************************************************)
NoHost == [kind |-> "none", s |-> ""]

ApiCall(op, name, host, get, first, pairs, enum) ==
    [op |-> op, name |-> name, host |-> host, get |-> get, first |-> first,
     pairs |-> pairs, enum |-> enum]

NoCall == ApiCall("none", << >>, NoHost, << >>, None, << >>, EnumErr)

ApiIdle ==
    /\ headers = << >>
    /\ innerOrder = << >>
    /\ outerOrder = << >>
    /\ apiCall = NoCall

\* a header table of the host and the orders in which it enumerates it; an accessor is
\* made afresh from the handle for each call, so a behaviour is one call on one table
ApiInit ==
    /\ headers \in HeaderTables
    /\ innerOrder \in [DOMAIN headers -> UNION {Perms(S) : S \in SUBSET PosKeys}]
    /\ \A n \in DOMAIN headers : innerOrder[n] \in Perms(DOMAIN headers[n])
    /\ outerOrder \in Perms(DOMAIN headers)
    /\ apiCall = NoCall

CallGet ==
    /\ apiCall = NoCall
    /\ \E name \in LookupNames :
          apiCall' = ApiCall("get", name, NoHost, HeadersGet(headers, innerOrder, name),
                             None, << >>, EnumErr)
    /\ UNCHANGED <<headers, innerOrder, outerOrder>>

CallGetFirst ==
    /\ apiCall = NoCall
    /\ \E name \in LookupNames :
          apiCall' = ApiCall("get_first", name, NoHost, << >>,
                             HeadersGetFirst(headers, name), << >>, EnumErr)
    /\ UNCHANGED <<headers, innerOrder, outerOrder>>

CallPairs ==
    /\ apiCall = NoCall
    /\ apiCall' = ApiCall("pairs", << >>, NoHost, << >>, None,
                          HeadersPairs(headers, innerOrder, outerOrder), EnumErr)
    /\ UNCHANGED <<headers, innerOrder, outerOrder>>

CallGetCap ==
    /\ apiCall = NoCall
    /\ \E hv \in HostReturns :
          apiCall' = ApiCall("get_cap", << >>, hv, << >>, None, << >>, GetCap(hv))
    /\ UNCHANGED <<headers, innerOrder, outerOrder>>

CallGetMode ==
    /\ apiCall = NoCall
    /\ \E hv \in HostReturns :
          apiCall' = ApiCall("get_mode", << >>, hv, << >>, None, << >>, GetMode(hv))
    /\ UNCHANGED <<headers, innerOrder, outerOrder>>

\* a call of Server::tracking on a server handle; the record also keeps the member
\* the call named and the Result<Option<Server>> it returned
CallTracking ==
    /\ apiCall = NoCall
    /\ \E hv \in TrackingReturns :
          apiCall' = ApiCall("tracking", << >>, hv, << >>, None, << >>, EnumErr)
                        @@ [member |-> TrackingMember, tracked |-> ServerTracking(hv)]
    /\ UNCHANGED <<headers, innerOrder, outerOrder>>

InitApi == MetricsInit /\ ApiInit

NextApi ==
    \/ CallGet /\ UNCHANGED metricVars
    \/ CallGetFirst /\ UNCHANGED metricVars
    \/ CallPairs /\ UNCHANGED metricVars
    \/ CallGetCap /\ UNCHANGED metricVars
    \/ CallGetMode /\ UNCHANGED metricVars
    \/ CallTracking /\ UNCHANGED metricVars

SpecApi == InitApi /\ [][NextApi]_vars

Init == MetricsInit /\ ApiIdle

Next ==
    \/ \E t \in Txns : RustReq(t) /\ UNCHANGED apiVars
    \/ \E t \in Txns : RustResp(t) /\ UNCHANGED apiVars
    \/ ServeMetrics /\ UNCHANGED apiVars
    \/ ClockForward /\ UNCHANGED apiVars
    \/ ClockBackward /\ UNCHANGED apiVars

Spec == Init /\ [][Next]_vars

(***************************************************************************)
(* The request hook on a given header table: the table the host hands to   *)
(* rust_req is held in headers, so that what the hook stores can be        *)
(* compared with what it was given                                         *)
(***************************************************************************)
\* values of the x-request-uri header: with and without the "/?" prefix, the prefix alone,
\* and the empty value
ReqUriValues == UriHeaderValues \cup {<<"/", "?">>, << >>}

\* the request header tables of the host: x-request-uri absent, or with its values at
\* positions 0..k
HostReqTables ==
    {<< >>} \cup {(XRequestUri :> vals) : vals \in UNION {[0..k -> ReqUriValues] : k \in 0..MaxPos}}

ReqInit ==
    /\ clock \in ClockValues
    /\ phase = [t \in Txns |-> "new"]
    /\ txnVars = [t \in Txns |-> EmptyStore]
    /\ procVars = EmptyStore
    /\ reqResult = [t \in Txns |-> "none"]
    /\ respResult = [t \in Txns |-> "none"]
    /\ registry = InitRegistry
    /\ applet = << >>
    /\ headers \in HostReqTables
    /\ innerOrder = << >>
    /\ outerOrder = << >>
    /\ apiCall = NoCall

\* the http-request action "rust_req" of transaction t, run on the table in headers
ReqHook(t) ==
    /\ phase[t] = "new"
    /\ \E fault \in ReqFaults :
          LET out == ReqRun([txn |-> txnVars[t], proc |-> procVars], headers, clock, fault)
          IN  /\ txnVars' = [txnVars EXCEPT ![t] = out.stores.txn]
              /\ procVars' = out.stores.proc
              /\ reqResult' = [reqResult EXCEPT ![t] = out.result]
    /\ phase' = [phase EXCEPT ![t] = "req_done"]
    /\ applet' = << >>
    /\ UNCHANGED <<clock, respResult, registry>>

NextReq == \E t \in Txns : ReqHook(t) /\ UNCHANGED apiVars

SpecReq == ReqInit /\ [][NextReq]_vars

(***************************************************************************)
(* Properties of the prometheus example, checked under Spec                *)
(***************************************************************************)
\* what a signal says, stated on the text itself: a piece starts at the beginning of the
\* signal or after a '&', and ends before the next '&' or at the end of the signal
StartsPiece(sig, i) == i = 1 \/ sig[i - 1] = "&"
EndsPiece(sig, j) == j = Len(sig) \/ sig[j + 1] = "&"

\* the piece starting at i is for the parameter: the name alone, or the name and '='
Names(sig, i, name) ==
    LET j == i + Len(name) - 1
    IN  /\ StartsPiece(sig, i)
        /\ j <= Len(sig)
        /\ SubSeq(sig, i, j) = name
        /\ EndsPiece(sig, j) \/ sig[j + 1] = "="

\* the piece starting at i is name=value (a value holds no '&')
Reads(sig, i, name, value) ==
    LET j == i + Len(name) + Len(value)
    IN  /\ StartsPiece(sig, i)
        /\ j <= Len(sig)
        /\ SubSeq(sig, i, j) = name \o <<"=">> \o value
        /\ EndsPiece(sig, j)

\* the signal contains name=value
Carries(sig, name, value) == \E i \in 1..Len(sig) : Reads(sig, i, name, value)

\* the signal's last piece for the name is name=value
LastCarries(sig, name, value) ==
    \E i \in 1..Len(sig) :
        /\ Reads(sig, i, name, value)
        /\ \A k \in (i + 1)..Len(sig) : ~Names(sig, k, name)

\* the signal has no piece for the name
Lacks(sig, name) == \A i \in 1..Len(sig) : ~Names(sig, i, name)

LabelVals == {<< >>, <<"1">>, <<"2">>}

\* the value of a counter series, a series never touched counting 0
Val(f, k) == IF k \in DOMAIN f THEN f[k] ELSE 0
Count(h, k) == IF k \in DOMAIN h THEN h[k].count ELSE 0
Sum(h, k) == IF k \in DOMAIN h THEN h[k].sum ELSE 0

\* counter family g is f with each series of incs incremented once, and nothing else changed
CounterStep(f, g, incs) ==
    \A l \in DOMAIN f \cup DOMAIN g \cup incs :
        Val(g, l) = Val(f, l) + (IF l \in incs THEN 1 ELSE 0)

\* histogram family g is h with one observation of value v under labels k, nothing else changed
HistStep(h, g, k, v) ==
    \A l \in DOMAIN h \cup DOMAIN g \cup {k} :
        /\ Count(g, l) = Count(h, l) + (IF l = k THEN 1 ELSE 0)
        /\ Sum(g, l) = Sum(h, l) + (IF l = k THEN v ELSE 0)

\* this step is the response phase of transaction t
RespStep(t) == phase[t] # "resp_done" /\ phase'[t] = "resp_done"

\* the request phase of t left a signal, and a timestamp
SignalStored(t) == txnVars[t].req_uri.type = "string"
TimeStored(t) == txnVars[t].start_time.type = "integer"
Signal(t) == txnVars[t].req_uri.s
\* the time from the stored timestamp, in milliseconds, to now, in clock ticks
Elapsed(t) == clock - TicksPerMs * txnVars[t].start_time.n

C2_AbsentStateFails ==
    [][\A t \in Txns :
          (RespStep(t) /\ ~SignalStored(t) /\ ~TimeStored(t))
          => (respResult'[t] = "err" /\ registry' = registry)]_vars

\* a response phase ran, and failed, on a transaction that had no request phase
C2_Witness ==
    \E t \in Txns :
        phase[t] = "resp_done" /\ reqResult[t] = "none" /\ respResult[t] = "err"

\* the histogram took one observation under a label pair that is empty for each parameter
\* the signal lacks
ObservedWithEmptyLabels(t) ==
    \E a, b \in LabelVals :
        /\ Lacks(Signal(t), Foo) => a = << >>
        /\ Lacks(Signal(t), Bar) => b = << >>
        /\ \E v \in 0..MaxClock :
              HistStep(registry.response_time, registry'.response_time, <<a, b>>, v)

LabelOf(sig, name, value) ==
    IF Lacks(sig, name) THEN value = << >> ELSE LastCarries(sig, name, value)

\* C8: under any interleaving of the hooks of several transactions, only a transaction's
\* own hooks change its txn.req_uri and txn.start_time, the hooks store nothing in a
\* scope the transactions share, and a response phase that succeeds has read the signal
\* and the timestamp of its own transaction: its observation carries the labels of that
\* signal and the time elapsed since that timestamp.
C8_ChannelIsolation ==
    [][/\ procVars' = procVars
       /\ \A t \in Txns :
            /\ txnVars'[t] # txnVars[t] => phase'[t] # phase[t]
            /\ (RespStep(t) /\ respResult'[t] = "ok")
               => /\ SignalStored(t) /\ TimeStored(t)
                  /\ \E a, b \in LabelVals :
                        /\ LabelOf(Signal(t), Foo, a) /\ LabelOf(Signal(t), Bar, b)
                        /\ HistStep(registry.response_time, registry'.response_time,
                                    <<a, b>>, Elapsed(t))]_vars

\* one transaction's response phase has succeeded on foo=1&bar=2 while another
\* transaction still holds a different signal and a later timestamp
C8_Witness ==
    \E t, u \in Txns :
        /\ t # u
        /\ phase[t] = "resp_done" /\ respResult[t] = "ok"
        /\ Count(registry.response_time, <<<<"1">>, <<"2">>>>) = 1
        /\ phase[u] = "req_done"
        /\ txnVars[u].req_uri.type = "string"
        /\ txnVars[u].req_uri.s # <<"f", "o", "o", "=", "1", "&", "b", "a", "r", "=", "2">>
        /\ txnVars[u].start_time.type = "integer"
        /\ txnVars[u].start_time.n > 0

\* the number of observations a histogram family holds, over all its series
RECURSIVE TotalCount(_)
TotalCount(h) ==
    IF DOMAIN h = {} THEN 0
    ELSE LET k == CHOOSE l \in DOMAIN h : TRUE
         IN  h[k].count + TotalCount([l \in DOMAIN h \ {k} |-> h[l]])

\* C9 as stated: each counter series counts the completed response phases whose signal
\* carried its value and the histogram counts the completed response phases, so a
\* response phase changes a counter series or the observation count exactly when it
\* completes, and then by one.
C9_NoLostUpdates ==
    [][\A t \in Txns :
          (RespStep(t) /\ SignalStored(t))
          => LET done == respResult'[t] = "ok"
                 foos == {a \in LabelVals : done /\ LastCarries(Signal(t), Foo, a)}
                 bars == {b \in LabelVals : done /\ LastCarries(Signal(t), Bar, b)}
             IN  /\ CounterStep(registry.foo_call_total, registry'.foo_call_total, foos)
                 /\ CounterStep(registry.bar_call_total, registry'.bar_call_total, bars)
                 /\ TotalCount(registry'.response_time)
                       = TotalCount(registry.response_time) + (IF done THEN 1 ELSE 0)]_vars

\* the calls of a response, by position
CallsOf(calls, op) == {i \in DOMAIN calls : calls[i].call = op}
HeaderCalls(calls, name) == {i \in DOMAIN calls : calls[i].call = "add_header" /\ calls[i].name = name}

\* the body has a line of this name, labels and value
HasLine(body, name, labels, value) ==
    \E i \in DOMAIN body : body[i] = [name |-> name, labels |-> labels, value |-> value]

\* the body is the text encoding of the registry: a line for every series of every
\* family, carrying the series' value, and no other line
EncodesRegistry(body, reg) ==
    /\ Len(body) = Cardinality(DOMAIN reg.app_name) + Cardinality(DOMAIN reg.foo_call_total)
                   + Cardinality(DOMAIN reg.bar_call_total)
                   + 2 * Cardinality(DOMAIN reg.response_time)
    /\ \A l \in DOMAIN reg.app_name : HasLine(body, "app_name", <<l>>, reg.app_name[l])
    /\ \A l \in DOMAIN reg.foo_call_total :
          HasLine(body, "foo_http_requests_total", <<l>>, reg.foo_call_total[l])
    /\ \A l \in DOMAIN reg.bar_call_total :
          HasLine(body, "bar_http_requests_total", <<l>>, reg.bar_call_total[l])
    /\ \A l \in DOMAIN reg.response_time :
          /\ HasLine(body, "total_response_time_seconds_count", l, reg.response_time[l].count)
          /\ HasLine(body, "total_response_time_seconds_sum", l, reg.response_time[l].sum)

\* C10: every pull of the metrics service produces status 200, a content-length header
\* equal to the length of the body, a content-type header application/octet-stream and a
\* body that is the text encoding of the registry's current state; status and headers
\* come before the start of the response and the body after it; the pull changes no
\* counter, histogram or gauge.
C10_SnapshotResponse ==
    [][applet' # << >>
       => LET status == CallsOf(applet', "set_status")
              length == HeaderCalls(applet', "content-length")
              type == HeaderCalls(applet', "content-type")
              start == CallsOf(applet', "start_response")
              send == CallsOf(applet', "send")
          IN  /\ registry' = registry
              /\ \A S \in {status, length, type, start, send} : Cardinality(S) = 1
              /\ \A st \in status : applet'[st].num = 200
              /\ \A ct \in type : applet'[ct].text = "application/octet-stream"
              /\ \A sr \in start :
                    /\ \A i \in status \cup length \cup type : i < sr
                    /\ \A sd \in send : sr < sd
              /\ \A sd \in send :
                    /\ \A cl \in length : applet'[cl].num = Len(applet'[sd].body)
                    /\ EncodesRegistry(applet'[sd].body, registry)]_vars

\* a pull served a registry that holds counter series and an observation
C10_Witness ==
    /\ applet # << >>
    /\ registry.foo_call_total # << >>
    /\ registry.bar_call_total # << >>
    /\ registry.response_time # << >>

\* C11: in every state reachable after module initialization, through any sequence of
\* request phases, response phases and snapshot pulls, the gauge app_name holds exactly
\* the series app="haproxy_prometheus_module", with value 1.
C11_GaugeConstant ==
    /\ DOMAIN registry.app_name = {AppLabel}
    /\ registry.app_name[AppLabel] = 1

\* every transaction went through both hooks, the last step was a pull, and the counters
\* and the histogram have moved
C11_Witness ==
    /\ \A t \in Txns : phase[t] = "resp_done" /\ reqResult[t] = "ok" /\ respResult[t] = "ok"
    /\ applet # << >>
    /\ TotalCount(registry.response_time) = NumTxns
    /\ registry.foo_call_total # << >>
    /\ C11_GaugeConstant

\* C14: a failing response phase mutates nothing: whenever the response hook returns an
\* error for a transaction whose signal is stored, no counter has been incremented and
\* no histogram observation has been recorded by that invocation.
C14_FailureMutatesNothing ==
    [][\A t \in Txns :
          (RespStep(t) /\ SignalStored(t) /\ respResult'[t] = "err")
          => registry' = registry]_vars

\* C15: for every stored timestamp T and every clock reading now, the response phase
\* either observes a non-negative elapsed duration equal to now - T, the timestamp read
\* back being the one written, or fails its own hook invocation with an error; when the
\* clock reads earlier than T it does not abort abnormally.
C15_ElapsedOrError ==
    [][\A t \in Txns :
          (RespStep(t) /\ SignalStored(t) /\ TimeStored(t))
          => \/ respResult'[t] = "err"
             \/ /\ respResult'[t] = "ok"
                /\ Elapsed(t) >= 0
                /\ \E a, b \in LabelVals :
                      HistStep(registry.response_time, registry'.response_time,
                               <<a, b>>, Elapsed(t))]_vars

\* the signal has more than one piece for the parameter
Repeats(sig, name) == Cardinality({i \in 1..Len(sig) : Names(sig, i, name)}) > 1

\* the histogram took one observation whose foo label is the given value
ObservedUnderFoo(a) ==
    \E b \in LabelVals : \E v \in 0..MaxClock :
        HistStep(registry.response_time, registry'.response_time, <<a, b>>, v)

\* the histogram took one observation whose bar label is the given value
ObservedUnderBar(b) ==
    \E a \in LabelVals : \E v \in 0..MaxClock :
        HistStep(registry.response_time, registry'.response_time, <<a, b>>, v)

IsSignalOf(sig, tbl) ==
    LET got == IF XRequestUri \in DOMAIN tbl THEN tbl[XRequestUri][0] ELSE << >>
    IN  IF Len(got) >= 2 /\ got[1] = "/" /\ got[2] = "?"
        THEN got = <<"/", "?">> \o sig
        ELSE got = sig

\* C13: when a request phase completes successfully, txn.req_uri holds the first value
\* of the x-request-uri header without a leading "/?" (the value itself when it has no
\* such prefix, the empty string when the header is absent), txn.start_time holds the
\* wall-clock time in whole milliseconds, and no counter, histogram or gauge has changed.
C13_RequestStores ==
    [][\A t \in Txns :
          (phase[t] = "new" /\ phase'[t] = "req_done" /\ reqResult'[t] = "ok")
          => /\ txnVars'[t].req_uri.type = "string"
             /\ IsSignalOf(txnVars'[t].req_uri.s, headers)
             /\ txnVars'[t].start_time.type = "integer"
             /\ TicksPerMs * txnVars'[t].start_time.n <= clock
             /\ clock < TicksPerMs * (txnVars'[t].start_time.n + 1)
             /\ registry' = registry]_vars

\* a request phase succeeded on a prefixed header value, some milliseconds after the epoch
C13_Witness ==
    \E t \in Txns :
        /\ reqResult[t] = "ok"
        /\ XRequestUri \in DOMAIN headers
        /\ headers[XRequestUri][0] = <<"/", "?", "f", "o", "o", "=", "1", "&", "b", "a", "r", "=", "2">>
        /\ txnVars[t].req_uri.s = <<"f", "o", "o", "=", "1", "&", "b", "a", "r", "=", "2">>
        /\ txnVars[t].start_time.n > 0

(***************************************************************************)
(* Properties of the accessors, checked under SpecApi                      *)
(***************************************************************************)
\* the values of a value table by increasing position key
InPositionOrder(values) ==
    [i \in 1..Cardinality(DOMAIN values) |->
        values[CHOOSE k \in DOMAIN values :
                  Cardinality({j \in DOMAIN values : j <= k}) = i]]

\* C4: for a header table whose value tables are keyed by distinct integer positions,
\* Headers::get(name) returns exactly the values stored under that name, by strictly
\* increasing position key, in whatever order the host enumerates the tables; and every
\* entry Headers::pairs yields carries the values of its name in that same order, each
\* stored name being yielded once.
C4_ValuesInPositionOrder ==
    /\ (apiCall.op = "get" /\ apiCall.name \in DOMAIN headers)
          => apiCall.get = InPositionOrder(headers[apiCall.name])
    /\ apiCall.op = "pairs"
          => /\ Len(apiCall.pairs) = Cardinality(DOMAIN headers)
             /\ {apiCall.pairs[i].name : i \in 1..Len(apiCall.pairs)} = DOMAIN headers
             /\ \A i \in 1..Len(apiCall.pairs) :
                   apiCall.pairs[i].values = InPositionOrder(headers[apiCall.pairs[i].name])

\* get was called on a name whose values the host enumerates out of position order
C4_Witness ==
    /\ apiCall.op = "get"
    /\ apiCall.name = NameA
    /\ NameA \in DOMAIN headers
    /\ Len(innerOrder[NameA]) >= 2
    /\ innerOrder[NameA][1] > innerOrder[NameA][2]
    /\ apiCall.get[1] # apiCall.get[2]

\* what C5 says get_first is, given what get returns
FirstOfGet(name) ==
    LET all == HeadersGet(headers, innerOrder, name)
    IN  IF all # << >> THEN Some(all[1]) ELSE None

\* a value table indexed as the host indexes it: from position 0
ZeroBased(values) == \A k \in DOMAIN values : k >= 0 /\ 0 \in DOMAIN values

\* C5 as stated: for every header table and every name, get_first(name) is
\* Some(first element of get(name)) when get(name) is non-empty, and None otherwise.
C5_Original == apiCall.op = "get_first" => apiCall.first = FirstOfGet(apiCall.name)

\* C5 amended: the same, for every header table whose value tables are indexed from
\* position 0 (the host's convention: no position key below 0, and position 0 present
\* in a non-empty value table).
C5_FirstIsFirstOfGet ==
    (apiCall.op = "get_first" /\ \A n \in DOMAIN headers : ZeroBased(headers[n]))
        => apiCall.first = FirstOfGet(apiCall.name)

\* get_first found a value in a zero-based table the host enumerates from another position
C5_Witness ==
    /\ apiCall.op = "get_first"
    /\ \A n \in DOMAIN headers : ZeroBased(headers[n])
    /\ apiCall.first.some
    /\ NameA \in DOMAIN headers
    /\ apiCall.name = NameA
    /\ innerOrder[NameA][1] # 0

\* the two names are the same up to the case of their ASCII letters
DifferOnlyInCase(a, b) ==
    /\ Len(a) = Len(b)
    /\ \A i \in 1..Len(a) :
          a[i] = b[i] \/ \E k \in 1..Len(Upper) : {a[i], b[i]} = {Upper[k], Lower[k]}

\* C6: header name lookups are case-insensitive: get and get_first return for a name what
\* they return for every name that differs from it only in letter case.
C6_LookupIgnoresCase ==
    \A other \in LookupNames :
        DifferOnlyInCase(apiCall.name, other)
            => /\ apiCall.op = "get" => apiCall.get = HeadersGet(headers, innerOrder, other)
               /\ apiCall.op = "get_first" => apiCall.first = HeadersGetFirst(headers, other)

\* a lookup by a name in upper case found the values the host stores in lower case
C6_Witness ==
    /\ apiCall.op = "get"
    /\ apiCall.name = <<"X", "-", "A">>
    /\ apiCall.get # << >>

\* C7: for every text tag the host returns, get_cap and get_mode succeed; a tag that is
\* exactly a known tag decodes to its variant, every other text (the empty string, a known
\* tag in another letter case) to the fallback variant, Ruleset or Unknown.
C7_EnumDecodingTotal ==
    /\ (apiCall.op = "get_cap" /\ apiCall.host.kind = "text")
          => /\ apiCall.enum.ok
             /\ apiCall.host.s = "frontend" => apiCall.enum.variant = "Frontend"
             /\ apiCall.host.s = "backend" => apiCall.enum.variant = "Backend"
             /\ apiCall.host.s = "proxy" => apiCall.enum.variant = "Proxy"
             /\ apiCall.host.s \notin {"frontend", "backend", "proxy"}
                   => apiCall.enum.variant = "Ruleset"
    /\ (apiCall.op = "get_mode" /\ apiCall.host.kind = "text")
          => /\ apiCall.enum.ok
             /\ apiCall.host.s = "tcp" => apiCall.enum.variant = "Tcp"
             /\ apiCall.host.s = "http" => apiCall.enum.variant = "Http"
             /\ apiCall.host.s = "health" => apiCall.enum.variant = "Health"
             /\ apiCall.host.s \notin {"tcp", "http", "health"}
                   => apiCall.enum.variant = "Unknown"

\* get_cap decoded a known tag in another letter case to the fallback
C7_Witness ==
    /\ apiCall.op = "get_cap"
    /\ apiCall.host = [kind |-> "text", s |-> "Frontend"]
    /\ apiCall.enum = EnumOk("Ruleset")

\* C12: Server::tracking invokes the host member named "tracking" on its server handle,
\* and returns the tracked server when the host returns one and None when it returns nil.
C12_TrackingMember ==
    apiCall.op = "tracking"
        => /\ apiCall.member = "tracking"
           /\ apiCall.tracked.ok
           /\ apiCall.host.kind = "server"
                 => (apiCall.tracked.some /\ apiCall.tracked.server = apiCall.host.s)
           /\ apiCall.host.kind = "nil" => ~apiCall.tracked.some

====
